---- MODULE Spec2Model ----
(***************************************************************************)
(* AIGateway MCP server (mcp-server/src/mcp_server.py).                    *)
(*                                                                         *)
(* The module-level AIGatewayClient, its four HTTP methods and the three   *)
(* tool handlers are modelled.  Python values are tagged records, the      *)
(* gateway is the environment: every request receives a response chosen    *)
(* nondeterministically (network failure, non-2xx status, 2xx with a body  *)
(* that is or is not JSON of the expected shape).                          *)
(***************************************************************************)
EXTENDS Integers, Sequences, FiniteSets, TLC

VARIABLES AIGATEWAY_URL, AIGATEWAY_API_KEY, client, call, requests, responses, result

vars == <<AIGATEWAY_URL, AIGATEWAY_API_KEY, client, call, requests, responses, result>>

\* Longest list the gateway returns in a "models" or "data" field.
MaxLen == 2

(* ------------------------------ Python values -------------------------- *)

None == [t |-> "None"]
Str(s) == [t |-> "str", v |-> s]
Bool(b) == [t |-> "bool", v |-> b]
PyInt(n) == [t |-> "int", v |-> n]
List(s) == [t |-> "list", v |-> s]
Dict(f) == [t |-> "dict", v |-> f]

EmptyDict == Dict([k \in {} |-> None])

\* bool(x): the truth value Python's "if x" uses
Truthy(x) ==
    CASE x.t = "None" -> FALSE
      [] x.t = "str" -> x.v # ""
      [] x.t = "bool" -> x.v
      [] x.t = "int" -> x.v # 0
      [] x.t = "list" -> Len(x.v) # 0
      [] x.t = "dict" -> DOMAIN x.v # {}

\* x is not None
IsNotNone(x) == x.t # "None"

\* len(x) is defined (otherwise TypeError)
HasLen(x) == x.t \in {"str", "list", "dict"}

len(x) ==
    CASE x.t = "dict" -> Cardinality(DOMAIN x.v)
      [] x.t = "list" -> Len(x.v)
      [] x.t = "str" -> Len(x.v)

\* d.get(key, default) of a dict
get(d, key, default) == IF key \in DOMAIN d.v THEN d.v[key] ELSE default

\* payload[key] = value
SetItem(d, key, value) ==
    Dict([k \in (DOMAIN d.v) \cup {key} |-> IF k = key THEN value ELSE d.v[k]])

(* ------------------------------ control flow --------------------------- *)

Return(reqs, value) == [requests |-> reqs, outcome |-> [kind |-> "return", value |-> value]]
Raise(reqs, exc) == [requests |-> reqs, outcome |-> [kind |-> "raise", exc |-> exc]]

Raised(run) == run.outcome.kind = "raise"

\* the exception classes that can arise; the first two derive from httpx.HTTPError
HTTPError == {"ConnectError", "HTTPStatusError"}
Exception == HTTPError \cup {"JSONDecodeError", "AttributeError", "TypeError"}

(* ------------------------------ the gateway ---------------------------- *)

NetworkFailure == [net |-> "error", status |-> 0, body |-> [t |-> "invalid"]]
HttpResponse(status, body) == [net |-> "ok", status |-> status, body |-> body]

Ids(n) == [i \in 1..n |-> i]

Lists == {List(Ids(n)) : n \in 0..MaxLen}

JsonBodies ==
    {EmptyDict, List(Ids(1)), Dict([data |-> None])}
    \cup {Dict([models |-> l]) : l \in Lists}
    \cup {Dict([data |-> l]) : l \in Lists}

Bodies == JsonBodies \cup {[t |-> "invalid"]}

\* what the gateway may answer to a GET
Responses ==
    {NetworkFailure}
    \cup {HttpResponse(500, EmptyDict)}
    \cup {HttpResponse(200, b) : b \in Bodies}

\* what the gateway may answer to a POST or PUT
WriteResponses ==
    {NetworkFailure, HttpResponse(404, EmptyDict),
     HttpResponse(201, EmptyDict), HttpResponse(200, [t |-> "invalid"])}

Failed(resp) == resp.net = "error" \/ resp.status \notin 200..299

(* ------------------------------ httpx ---------------------------------- *)

NoHeaders == [h \in {} |-> ""]
XApiKey(api_key) == [h \in {"X-API-Key"} |-> api_key]

Request(method, base, path, headers, json) ==
    [method |-> method, base |-> base, path |-> path, headers |-> headers, json |-> json]

\* variant: the status of the response is never looked at
raise_for_status_skipped(resp) == FALSE

\* response.raise_for_status() raises
raise_for_status(resp) == resp.status \notin 200..299

\* the part of each client method after the request was sent:
\* network failure, raise_for_status(), response.json()
Receive(reqs, resp) ==
    IF resp.net = "error" THEN Raise(reqs, "ConnectError")
    ELSE IF raise_for_status(resp) THEN Raise(reqs, "HTTPStatusError")
    ELSE IF resp.body.t = "invalid" THEN Raise(reqs, "JSONDecodeError")
    ELSE Return(reqs, resp.body)

(* ------------------------------ AIGatewayClient ------------------------ *)

AIGatewayClient(base_url, api_key) ==
    [base_url |-> base_url, api_key |-> api_key,
     headers |-> IF api_key # "" THEN XApiKey(api_key) ELSE NoHeaders]

\* variant: a failed GET is tried a second time
Client_list_models_retry(self, resp) ==
    LET req == Request("GET", self.base_url, <<"/v1/models">>, self.headers, None)
        r == Receive(<<req>>, resp)
    IN  IF Raised(r) THEN Receive(<<req, req>>, resp) ELSE r

Client_list_models(self, resp) ==
    Receive(<<Request("GET", self.base_url, <<"/v1/models">>, self.headers, None)>>, resp)

\* variant: the request goes through the configured instance client
Client_get_custom_mappings_instance(self, user_id, api_key, resp) ==
    LET r == Receive(<<Request("GET", self.base_url, <<"/api/v1/model-mappings">>,
                               self.headers, None)>>, resp)
    IN  IF Raised(r) THEN r
        ELSE IF r.outcome.value.t # "dict" THEN Raise(r.requests, "AttributeError")
        ELSE Return(r.requests, get(r.outcome.value, "data", List(<<>>)))

\* variant: the decoded body is returned whole, its "data" field is not taken
Client_get_custom_mappings_whole(self, user_id, api_key, resp) ==
    Receive(<<Request("GET", self.base_url, <<"/api/v1/model-mappings">>,
                      XApiKey(api_key.v), None)>>, resp)

Client_get_custom_mappings(self, user_id, api_key, resp) ==
    LET r == Receive(<<Request("GET", self.base_url, <<"/api/v1/model-mappings">>,
                               XApiKey(api_key.v), None)>>, resp)
    IN  IF Raised(r) THEN r
        ELSE IF r.outcome.value.t # "dict" THEN Raise(r.requests, "AttributeError")
        ELSE Return(r.requests, get(r.outcome.value, "data", List(<<>>)))

\* variant: description is always part of the payload
Client_create_mapping_desc(self, api_key, alias, provider_id, model_name, description, resp) ==
    Receive(<<Request("POST", self.base_url, <<"/api/v1/model-mappings">>, XApiKey(api_key.v),
                      Dict([alias |-> alias, provider_id |-> provider_id,
                            model_name |-> model_name, description |-> description]))>>, resp)

Client_create_mapping(self, api_key, alias, provider_id, model_name, description, resp) ==
    LET base == Dict([alias |-> alias, provider_id |-> provider_id, model_name |-> model_name])
        payload == IF Truthy(description) THEN SetItem(base, "description", description)
                   ELSE base
    IN  Receive(<<Request("POST", self.base_url, <<"/api/v1/model-mappings">>,
                          XApiKey(api_key.v), payload)>>, resp)

Client_update_mapping(self, api_key, alias, provider_id, model_name, description, enabled, resp) ==
    LET p0 == EmptyDict
        p1 == IF Truthy(provider_id) THEN SetItem(p0, "provider_id", provider_id) ELSE p0
        p2 == IF Truthy(model_name) THEN SetItem(p1, "model_name", model_name) ELSE p1
        p3 == IF IsNotNone(description) THEN SetItem(p2, "description", description) ELSE p2
        payload == IF IsNotNone(enabled) THEN SetItem(p3, "enabled", enabled) ELSE p3
    IN  Receive(<<Request("PUT", self.base_url, <<"/api/v1/model-mappings/", alias.v>>,
                          XApiKey(api_key.v), payload)>>, resp)

(* ------------------------------ tool handlers -------------------------- *)

\* str(x) of a value: the text starts with the opening bracket of its repr
str(x) ==
    [head |-> CASE x.t = "dict" -> "{" [] x.t = "list" -> "[" [] OTHER -> x.t,
     msg |-> "", obj |-> x]

\* f"Error: {msg}{detail}"
ErrorString(msg, detail) == [head |-> "Error: ", msg |-> msg, obj |-> detail]

\* try: ... except Exception as e: return f"Error: {prefix}{str(e)}"
except_Exception(run, prefix) ==
    IF Raised(run) /\ run.outcome.exc \in Exception
    THEN Return(run.requests, ErrorString(prefix, [t |-> "exc", v |-> run.outcome.exc]))
    ELSE run

\* variant: the empty provider passes validation
valid_providers_lax == {"antigravity", "openai", "glm", ""}

valid_providers == {"antigravity", "openai", "glm"}

tool_list_models(self, api_key, resp1, resp2) ==
    LET m == Client_list_models(self, resp1)
        models_response == m.outcome.value
        built_in_models == get(models_response, "models", List(<<>>))
        c == Client_get_custom_mappings(self, Str(""), api_key, resp2)
        reqs == m.requests \o c.requests
        custom_mappings == c.outcome.value
        body ==
            IF Raised(m) THEN m
            ELSE IF models_response.t # "dict" THEN Raise(m.requests, "AttributeError")
            ELSE IF Raised(c) THEN Raise(reqs, c.outcome.exc)
            ELSE IF ~HasLen(built_in_models) \/ ~HasLen(custom_mappings)
                 THEN Raise(reqs, "TypeError")
            ELSE Return(reqs, str(Dict([built_in_models |-> built_in_models,
                                        custom_mappings |-> custom_mappings,
                                        total |-> PyInt(len(built_in_models)
                                                        + len(custom_mappings))])))
    IN  except_Exception(body, "Failed to list models: ")

tool_create_mapping(self, api_key, alias, provider_id, model_name, description, resp) ==
    LET r == Client_create_mapping(self, api_key, alias, provider_id, model_name,
                                   description, resp)
        body ==
            IF provider_id.v \notin valid_providers
            THEN Return(<<>>, ErrorString("Invalid provider_id. Must be one of: ",
                                          [t |-> "set", v |-> valid_providers]))
            ELSE IF Raised(r) THEN r
            ELSE Return(r.requests, str(r.outcome.value))
    IN  except_Exception(body, "Failed to create mapping: ")

\* variant: the argument is passed on as it is
OrNone_kept(x) == x

\* x if x else None
OrNone(x) == IF Truthy(x) THEN x ELSE None

\* variant: new_alias, when given, is the alias the request is made for
tool_update_mapping_rename(self, api_key, alias, new_alias, provider_id, model_name, description, enabled, resp) ==
    LET r == Client_update_mapping(self, api_key, IF Truthy(new_alias) THEN new_alias ELSE alias,
                                   IF Truthy(provider_id) THEN provider_id ELSE None,
                                   IF Truthy(model_name) THEN model_name ELSE None,
                                   IF Truthy(description) THEN description ELSE None,
                                   enabled, resp)
        body == IF Raised(r) THEN r ELSE Return(r.requests, str(r.outcome.value))
    IN  except_Exception(body, "Failed to update mapping: ")

tool_update_mapping(self, api_key, alias, new_alias, provider_id, model_name, description, enabled, resp) ==
    LET r == Client_update_mapping(self, api_key, alias, OrNone(provider_id),
                                   OrNone(model_name), OrNone(description), enabled, resp)
        body == IF Raised(r) THEN r ELSE Return(r.requests, str(r.outcome.value))
    IN  except_Exception(body, "Failed to update mapping: ")

(* ------------------------------ inputs --------------------------------- *)

Urls == {"http://localhost:8088"}
DefaultKeys == {"", "ak_default"}
Keys == {Str("ak_user"), Str("ak_default")}
Aliases == {Str("my-gpt"), Str("other")}
NewAliases == {Str(""), Str("renamed")}
Providers == {Str(p) : p \in valid_providers \cup {"", "OpenAI"}}
UpdateProviders == {Str(""), Str("openai")}
ModelNames == {Str(""), Str("gpt-4")}
Descriptions == {Str(""), Str("my mapping")}
Enableds == {None, Bool(TRUE), Bool(FALSE)}
Optional(S) == S \cup {None}

(* ------------------------------ state machine -------------------------- *)

Init ==
    /\ AIGATEWAY_URL \in Urls
    /\ AIGATEWAY_API_KEY \in DefaultKeys
    /\ client = AIGatewayClient(AIGATEWAY_URL, AIGATEWAY_API_KEY)
    /\ call = [tool |-> "none"]
    /\ requests = <<>>
    /\ responses = <<>>
    /\ result = [kind |-> "none"]

\* one invocation: the requests it issued, the responses they got, what it returned
Invoked(c, run, resps) ==
    /\ call' = c
    /\ requests' = run.requests
    /\ responses' = SubSeq(resps, 1, Len(run.requests))
    /\ result' = run.outcome
    /\ UNCHANGED <<AIGATEWAY_URL, AIGATEWAY_API_KEY, client>>

\* variant: the caller's key is kept as the client's key
list_models_caching ==
    \E api_key \in Keys, resp1 \in Responses, resp2 \in Responses :
        LET run == tool_list_models(client, api_key, resp1, resp2)
        IN  /\ call' = [tool |-> "list_models", api_key |-> api_key]
            /\ requests' = run.requests
            /\ responses' = SubSeq(<<resp1, resp2>>, 1, Len(run.requests))
            /\ result' = run.outcome
            /\ client' = [client EXCEPT !.api_key = api_key.v]
            /\ UNCHANGED <<AIGATEWAY_URL, AIGATEWAY_API_KEY>>

list_models ==
    \E api_key \in Keys, resp1 \in Responses, resp2 \in Responses :
        Invoked([tool |-> "list_models", api_key |-> api_key],
                tool_list_models(client, api_key, resp1, resp2), <<resp1, resp2>>)

create_mapping ==
    \E api_key \in Keys, alias \in Aliases, provider_id \in Providers,
       model_name \in ModelNames, description \in Descriptions, resp \in WriteResponses :
        Invoked([tool |-> "create_mapping", api_key |-> api_key, alias |-> alias,
                 provider_id |-> provider_id, model_name |-> model_name,
                 description |-> description],
                tool_create_mapping(client, api_key, alias, provider_id, model_name,
                                    description, resp), <<resp>>)

update_mapping ==
    \E api_key \in Keys, alias \in Aliases, new_alias \in NewAliases,
       provider_id \in UpdateProviders, model_name \in ModelNames,
       description \in Descriptions, enabled \in Enableds, resp \in WriteResponses :
        Invoked([tool |-> "update_mapping", api_key |-> api_key, alias |-> alias,
                 new_alias |-> new_alias, provider_id |-> provider_id,
                 model_name |-> model_name, description |-> description,
                 enabled |-> enabled],
                tool_update_mapping(client, api_key, alias, new_alias, provider_id,
                                    model_name, description, enabled, resp), <<resp>>)

Next == list_models \/ create_mapping \/ update_mapping

Spec == Init /\ [][Next]_vars

\* the client method called directly, with every combination of optional arguments
AIGatewayClient_update_mapping ==
    \E api_key \in Keys, alias \in {Str("my-gpt")}, provider_id \in Optional(UpdateProviders),
       model_name \in Optional(ModelNames), description \in Optional(Descriptions),
       enabled \in Enableds, resp \in WriteResponses :
        Invoked([tool |-> "AIGatewayClient.update_mapping", api_key |-> api_key,
                 alias |-> alias, provider_id |-> provider_id, model_name |-> model_name,
                 description |-> description, enabled |-> enabled],
                Client_update_mapping(client, api_key, alias, provider_id, model_name,
                                      description, enabled, resp), <<resp>>)

NextClient == AIGatewayClient_update_mapping

SpecClient == Init /\ [][NextClient]_vars

TypeOK == result.kind \in {"none", "return", "raise"}

(* ------------------------------ properties ----------------------------- *)

Tools == {"list_models", "create_mapping", "update_mapping"}
ModelsPath == <<"/v1/models">>
MappingsPath == <<"/api/v1/model-mappings">>
StartsWithError == result.kind = "return" /\ result.value.head = "Error: "
OptionalFields == {"provider_id", "model_name", "description", "enabled"}

\* C1: create_mapping with a provider_id outside {antigravity, openai, glm}
\* (the empty string included) returns a string starting with "Error:" and
\* issues no HTTP request, whatever the other arguments are.
C1_InvalidProviderRejected ==
    (call.tool = "create_mapping"
        /\ call.provider_id.v \notin {"antigravity", "openai", "glm"})
    => (StartsWithError /\ requests = <<>>)

C1_Witness ==
    /\ call.tool = "create_mapping"
    /\ call.provider_id.v = ""
    /\ call.description.v # ""
    /\ StartsWithError
    /\ requests = <<>>

\* C2: in every handler, when an HTTP call of the invocation fails (non-2xx
\* status or network failure) the handler returns normally a string prefixed
\* "Error: "; no exception escapes a handler and no success result follows a
\* failed call.
C2_FailuresBecomeErrorStrings ==
    call.tool \in Tools
    => /\ result.kind = "return"
       /\ (\E i \in 1..Len(responses) : Failed(responses[i])) => StartsWithError

C2_Witness ==
    /\ call.tool = "list_models"
    /\ Len(responses) = 2
    /\ ~Failed(responses[1])
    /\ responses[2].net = "ok" /\ responses[2].status = 500
    /\ StartsWithError

\* C3: the body of update_mapping's PUT has the key provider_id, model_name
\* or description exactly when that input is a non-empty string, and the key
\* enabled exactly when enabled is set (true or false); with all of them
\* empty or unset the body is empty.
C3_UpdateBodyOmitsEmpty ==
    call.tool = "update_mapping"
    => /\ Len(requests) = 1
       /\ LET body == requests[1].json.v
          IN  /\ DOMAIN body \subseteq OptionalFields
              /\ \A k \in {"provider_id", "model_name", "description"} :
                    /\ (k \in DOMAIN body) <=> (call[k].v # "")
                    /\ (k \in DOMAIN body) => body[k] = call[k]
              /\ ("enabled" \in DOMAIN body) <=> (call.enabled.t # "None")
              /\ ("enabled" \in DOMAIN body) => body["enabled"] = call.enabled

C3_Witness ==
    /\ call.tool = "update_mapping"
    /\ call.provider_id.v = "" /\ call.model_name.v = ""
    /\ call.description.v # "" /\ call.enabled = Bool(FALSE)
    /\ Len(requests) = 1
    /\ DOMAIN requests[1].json.v = {"description", "enabled"}

\* C4: when both calls of list_models succeed, total is the number of
\* built-in models of the models response plus the number of custom mappings
\* of the mappings response, for every pair of lists (a mappings response
\* without a data field counts as no mappings).
C4_TotalIsSum ==
    (/\ call.tool = "list_models"
     /\ Len(responses) = 2
     /\ \A i \in 1..2 : ~Failed(responses[i]) /\ responses[i].body.t = "dict"
     /\ ("data" \in DOMAIN responses[2].body.v => responses[2].body.v["data"].t = "list"))
    => LET models == responses[1].body.v
           mappings == responses[2].body.v
           built_in == IF "models" \in DOMAIN models THEN models["models"].v ELSE <<>>
           custom == IF "data" \in DOMAIN mappings THEN mappings["data"].v ELSE <<>>
       IN  /\ result.kind = "return"
           /\ result.value.head = "{"
           /\ result.value.obj.v["built_in_models"].v = built_in
           /\ result.value.obj.v["custom_mappings"].v = custom
           /\ result.value.obj.v["total"] = PyInt(Len(built_in) + Len(custom))

C4_Witness ==
    /\ call.tool = "list_models"
    /\ Len(responses) = 2
    /\ ~Failed(responses[1]) /\ responses[1].body.t = "dict"
    /\ "models" \in DOMAIN responses[1].body.v
    /\ ~Failed(responses[2]) /\ responses[2].body.t = "dict"
    /\ "data" \in DOMAIN responses[2].body.v
    /\ responses[2].body.v["data"].t = "list"
    /\ result.kind = "return"
    /\ result.value.head = "{"
    /\ result.value.obj.v["total"].v >= 3

\* C5: the POST body of a create_mapping call that reaches the gateway has
\* alias, provider_id and model_name with the values passed in, and the key
\* description exactly when the description argument is non-empty.
C5_CreateBody ==
    (call.tool = "create_mapping" /\ requests # <<>>)
    => /\ Len(requests) = 1
       /\ requests[1].method = "POST"
       /\ requests[1].path = MappingsPath
       /\ LET body == requests[1].json.v
          IN  /\ {"alias", "provider_id", "model_name"} \subseteq DOMAIN body
              /\ DOMAIN body \subseteq {"alias", "provider_id", "model_name", "description"}
              /\ body["alias"] = call.alias
              /\ body["provider_id"] = call.provider_id
              /\ body["model_name"] = call.model_name
              /\ ("description" \in DOMAIN body) <=> (call.description.v # "")
              /\ ("description" \in DOMAIN body) => body["description"] = call.description

C5_Witness ==
    /\ call.tool = "create_mapping"
    /\ call.alias.v = "my-gpt" /\ call.provider_id.v = "openai"
    /\ call.model_name.v = "gpt-4" /\ call.description.v = ""
    /\ Len(requests) = 1
    /\ DOMAIN requests[1].json.v = {"alias", "provider_id", "model_name"}

\* C6: in a direct call of the client's update_mapping, each of provider_id,
\* model_name, description and enabled is in the PUT body if and only if its
\* argument is not None; a non-None empty string or False is included.
C6_DirectUpdateIncludesNonNull ==
    call.tool = "AIGatewayClient.update_mapping"
    => /\ Len(requests) = 1
       /\ \A k \in OptionalFields :
             (k \in DOMAIN requests[1].json.v) <=> (call[k].t # "None")

\* C7: every request to a model-mappings endpoint carries X-API-Key equal to
\* the api_key argument of the invocation, and the GET /v1/models request
\* carries only the process-wide default key (no X-API-Key header when that
\* key is empty); neither key is sent in the place of the other.
C7_KeyPerEndpoint ==
    call.tool \in Tools
    => \A i \in 1..Len(requests) :
         LET r == requests[i]
         IN  IF r.path = ModelsPath
             THEN /\ r.headers = (IF AIGATEWAY_API_KEY # ""
                                  THEN XApiKey(AIGATEWAY_API_KEY) ELSE NoHeaders)
                  /\ call.api_key.v # AIGATEWAY_API_KEY
                       => \A h \in DOMAIN r.headers : r.headers[h] # call.api_key.v
             ELSE /\ r.path[1] \in {"/api/v1/model-mappings", "/api/v1/model-mappings/"}
                  /\ r.headers = XApiKey(call.api_key.v)
                  /\ call.api_key.v # AIGATEWAY_API_KEY
                       => r.headers["X-API-Key"] # AIGATEWAY_API_KEY

C7_Witness ==
    /\ call.tool = "list_models"
    /\ AIGATEWAY_API_KEY = "ak_default"
    /\ call.api_key.v = "ak_user"
    /\ Len(requests) = 2
    /\ requests[1].headers = XApiKey("ak_default")
    /\ requests[2].headers = XApiKey("ak_user")

\* C8: no retries: create_mapping issues at most one POST, update_mapping
\* exactly one PUT, list_models at most one GET /v1/models followed by at
\* most one GET /api/v1/model-mappings, the second only after the first
\* succeeded.
C8_NoRetries ==
    /\ call.tool = "create_mapping"
         => Len(requests) <= 1 /\ \A i \in 1..Len(requests) : requests[i].method = "POST"
    /\ call.tool = "update_mapping"
         => Len(requests) = 1 /\ requests[1].method = "PUT"
    /\ call.tool = "list_models"
         => /\ Len(requests) \in 1..2
            /\ requests[1].method = "GET" /\ requests[1].path = ModelsPath
            /\ Failed(responses[1]) => Len(requests) = 1
            /\ Len(requests) = 2
                 => requests[2].method = "GET" /\ requests[2].path = MappingsPath

C8_Witness ==
    /\ call.tool = "list_models"
    /\ Len(requests) = 1
    /\ Failed(responses[1])
    /\ StartsWithError

\* C9: no invocation, successful or failing, changes the process-wide client
\* configuration (base URL, default key, default headers): it stays what it
\* was built from at start-up, and no caller key is kept in it.
C9_ConfigurationUnchanged ==
    [][/\ client' = client
       /\ AIGATEWAY_URL' = AIGATEWAY_URL
       /\ AIGATEWAY_API_KEY' = AIGATEWAY_API_KEY
       /\ client' = AIGatewayClient(AIGATEWAY_URL, AIGATEWAY_API_KEY)]_vars

C9_Witness ==
    /\ call.tool = "list_models"
    /\ Len(requests) = 2
    /\ result.kind = "return"
    /\ call.api_key.v # AIGATEWAY_API_KEY
    /\ client.api_key = AIGATEWAY_API_KEY

====
